---- MODULE Spec2Model ----
(***************************************************************************)
(* droid-patcher: the byte-signature extractor (removeDroidHeader), the    *)
(* AST rewrite (patchAst) and the pipeline (downloadAndProcessDroid).      *)
(*                                                                         *)
(* src/src/fetch_droid.ts holds two revisions of the pipeline one after    *)
(* the other; the second one (lines 224-549) is the one that reads the     *)
(* config file and calls the AST patcher, and it is the one modelled.      *)
(***************************************************************************)
EXTENDS Integers, Sequences, FiniteSets, TLC

VARIABLES
    \* ---- removeDroidHeader ----
    inBuf,              \* the bytes of the file at filePath
    fileBuffer,         \* the local `fileBuffer`
    signatureIndex,     \* the local `signatureIndex`
    tailSignatureIndex, \* the local `tailSignatureIndex`
    outFile,            \* the file at outputPath: [written, data]
    xpc,                \* position inside removeDroidHeader
    xerr,               \* what removeDroidHeader rethrew: "none" or the call that rejected
    \* ---- downloadAndProcessDroid ----
    configFile,         \* the file at configPath
    outDir,             \* the working directory outputDir and its files
    pkgDir,             \* the package directory and its files
    pc,                 \* position inside downloadAndProcessDroid
    config,             \* the local `config`
    remoteVer,          \* the local `downloadInfo.version`
    outcome,            \* how the current run ended: "none", "skipped", "completed", "failed"
    runs,               \* calls of downloadAndProcessDroid so far
    attempted,          \* the pipeline steps this run has started, in order
    failedAt,           \* the pipeline step whose rejection this run rethrew, or "none"
    netFailed,          \* the network requests that failed in this run
    cfgUnreadable,      \* readConfig's access/readFile rejected in this run
    snapshot,           \* configFile, outDir and pkgDir as the run found them
    \* ---- patchAst ----
    code,               \* the argument `code`: the statements its text parses to
    patchConfig,        \* the argument `config`
    ast,                \* `ast.program.body`
    traversed,          \* ast.program.body as traverse() left it
    output,             \* the returned `output.code`, as tokens
    ppc                 \* position inside patchAst

xvars == <<inBuf, fileBuffer, signatureIndex, tailSignatureIndex, outFile, xpc, xerr>>

ovars == <<configFile, outDir, pkgDir, pc, config, remoteVer, outcome, runs,
           attempted, failedAt, netFailed, cfgUnreadable, snapshot>>

pvars == <<code, patchConfig, ast, traversed, output, ppc>>

vars == <<xvars, ovars, pvars>>

-----------------------------------------------------------------------------
(* Bounds                                                                  *)

\* an input file is the concatenation of at most MaxSegs segments of SegPool
MaxSegs == 3

\* calls of downloadAndProcessDroid in one behaviour
MaxRuns == 2

\* top-level statements of a program given to patchAst
MaxStmts == 3

-----------------------------------------------------------------------------
(* Values of the state shared by the specifications below                  *)

\* catch (error) { ...; return "0.27.4"; }
FallbackVersion == "0.27.4"

\* a default record that already names a version
DefaultConfigWithVersion ==
    [isNull |-> FALSE, packageName |-> "droid-patched", version |-> FallbackVersion,
     bin_name |-> "droid"]

\* readConfig's default record
DefaultConfig ==
    [isNull |-> FALSE, packageName |-> "droid-patched", version |-> "",
     bin_name |-> "droid"]

\* the JSON value `null`
NullConfig ==
    [isNull |-> TRUE, packageName |-> "", version |-> "", bin_name |-> ""]

\* a config file: missing, not JSON ("corrupt"), or JSON text of a value
ConfigFileOf(cfg) == [kind |-> "json", value |-> cfg]
MissingFile == [kind |-> "missing", value |-> NullConfig]
CorruptFile == [kind |-> "corrupt", value |-> NullConfig]

NoDir  == [exists |-> FALSE, exe |-> "", processed |-> "", patched |-> ""]
NoPkg  == [exists |-> FALSE, main |-> "", manifestName |-> "", manifestVersion |-> ""]

NoFile == [written |-> FALSE, data |-> << >>]

OIdle ==
    /\ configFile = MissingFile
    /\ outDir = NoDir
    /\ pkgDir = NoPkg
    /\ pc = "idle"
    /\ config = DefaultConfig
    /\ remoteVer = ""
    /\ outcome = "none"
    /\ runs = 0
    /\ attempted = << >>
    /\ failedAt = "none"
    /\ netFailed = {}
    /\ cfgUnreadable = FALSE
    /\ snapshot = << MissingFile, NoDir, NoPkg >>

XIdle ==
    /\ inBuf = << >>
    /\ fileBuffer = << >>
    /\ signatureIndex = -1
    /\ tailSignatureIndex = -1
    /\ outFile = NoFile
    /\ xpc = "start"
    /\ xerr = "none"

\* a config in which every field is absent or empty
EmptyPatchConfig ==
    [removeIdentifiers |-> {}, renameIdentifiers |-> << >>,
     removeFunctionCalls |-> {}, replaceFunctionBody |-> << >>]

PIdle ==
    /\ code = << >>
    /\ patchConfig = EmptyPatchConfig
    /\ ast = << >>
    /\ traversed = << >>
    /\ output = << >>
    /\ ppc = "idle"

-----------------------------------------------------------------------------
(* Byte-signature extractor: removeDroidHeader                             *)

\* B:/~BUN/root/droid.exe\0// @bun\n
signaturePattern ==
    << 66, 58, 47, 126, 66, 85, 78, 47,
       114, 111, 111, 116, 47, 100, 114, 111,
       105, 100, 46, 101, 120, 101, 0, 47,
       47, 32, 64, 98, 117, 110, 10 >>

\* //# debugId=
tailSignaturePattern ==
    << 47, 47, 35, 32, 100, 101, 98, 117,
       103, 73, 100, 61 >>

\* the inner loop: does pat match buf at 0-based offset i, from pattern index j on
RECURSIVE MatchFrom(_, _, _, _)
MatchFrom(buf, pat, i, j) ==
    IF j >= Len(pat) THEN TRUE
    ELSE IF buf[i + j + 1] # pat[j + 1] THEN FALSE
    ELSE MatchFrom(buf, pat, i, j + 1)

\* the forward scan: for (i = from; i <= buf.length - pat.length; i++)
RECURSIVE ScanForward(_, _, _)
ScanForward(buf, pat, i) ==
    IF i > Len(buf) - Len(pat) THEN -1
    ELSE IF MatchFrom(buf, pat, i, 0) THEN i
    ELSE ScanForward(buf, pat, i + 1)

\* the backward scan: for (i = from; i >= 0; i--)
RECURSIVE ScanBackward(_, _, _)
ScanBackward(buf, pat, i) ==
    IF i < 0 THEN -1
    ELSE IF MatchFrom(buf, pat, i, 0) THEN i
    ELSE ScanBackward(buf, pat, i - 1)

\* Buffer.prototype.slice(start, end), 0 <= start, end exclusive
Slice(buf, start, end) ==
    SubSeq(buf, start + 1, IF end > Len(buf) THEN Len(buf) ELSE end)

\* step 1: the first occurrence of the header pattern in the buffer read
FindSignatureIndex(buf) == ScanForward(buf, signaturePattern, 0)

\* the `return` after the copy is missing: the code falls through to the slice
AfterHeaderSearchFallsThrough(sigIdx) == "sliceHeader"

\* if (signatureIndex === -1) { copy; return; }  else go on to the slice
AfterHeaderSearch(sigIdx) == IF sigIdx = -1 THEN "copy" ELSE "sliceHeader"

\* a header slice that starts at the pattern, not after it
HeaderEndIndexAtPattern(sigIdx) == sigIdx

\* const headerEndIndex = signatureIndex + signaturePattern.length
HeaderEndIndex(sigIdx) == sigIdx + Len(signaturePattern)

\* the slice is computed and dropped: fileBuffer keeps the whole file
AfterHeaderRemovalKept(buf, sigIdx) == buf

\* fileBuffer = fileBuffer.slice(headerEndIndex)
AfterHeaderRemoval(buf, sigIdx) == Slice(buf, HeaderEndIndex(sigIdx), Len(buf))

\* the tail searched from the front: the first occurrence
FindTailSignatureIndexFirst(buf) == ScanForward(buf, tailSignaturePattern, 0)

\* step 2: the last occurrence of the tail pattern in the buffer after the
\* header was removed
FindTailSignatureIndex(buf) ==
    ScanBackward(buf, tailSignaturePattern, Len(buf) - Len(tailSignaturePattern))

\* ---- input files ----
HeaderNoNewline == SubSeq(signaturePattern, 1, Len(signaturePattern) - 1)
TailNoEquals    == SubSeq(tailSignaturePattern, 1, Len(tailSignaturePattern) - 1)

SegPool ==
    << signaturePattern,      \* the header
       tailSignaturePattern,  \* the tail
       HeaderNoNewline,       \* the header less its last byte
       TailNoEquals,          \* the tail less its last byte
       << 10 >>,              \* "\n", the header's last byte
       << 61 >>,              \* "=", the tail's last byte
       << 77, 90 >> >>        \* "MZ"

RECURSIVE Flatten(_)
Flatten(segs) ==
    IF segs = << >> THEN << >>
    ELSE SegPool[Head(segs)] \o Flatten(Tail(segs))

SegSeqs == UNION { [1..n -> 1..Len(SegPool)] : n \in 0..MaxSegs }

InputBuffers == { Flatten(s) : s \in SegSeqs }

XInit ==
    /\ inBuf \in InputBuffers
    /\ fileBuffer = << >>
    /\ signatureIndex = -1
    /\ tailSignatureIndex = -1
    /\ outFile = NoFile
    /\ xpc = "start"
    /\ xerr = "none"
    /\ OIdle
    /\ PIdle

\* let fileBuffer = await readFile(filePath)
XReadFile ==
    /\ xpc = "start"
    /\ fileBuffer' = inBuf
    /\ xpc' = "findHeader"
    /\ UNCHANGED <<inBuf, signatureIndex, tailSignatureIndex, outFile, xerr>>
    /\ UNCHANGED <<ovars, pvars>>

\* readFile rejects: caught, logged, rethrown
XReadFileFails ==
    /\ xpc = "start"
    /\ xpc' = "threw"
    /\ xerr' = "readFile"
    /\ UNCHANGED <<inBuf, fileBuffer, signatureIndex, tailSignatureIndex, outFile>>
    /\ UNCHANGED <<ovars, pvars>>

\* the header search loop
XFindHeader ==
    /\ xpc = "findHeader"
    /\ signatureIndex' = FindSignatureIndex(fileBuffer)
    /\ xpc' = AfterHeaderSearch(signatureIndex')
    /\ UNCHANGED <<inBuf, fileBuffer, tailSignatureIndex, outFile, xerr>>
    /\ UNCHANGED <<ovars, pvars>>

\* if (signatureIndex === -1) { await writeFile(outputPath, fileBuffer); return; }
XCopyThrough ==
    /\ xpc = "copy"
    /\ outFile' = [written |-> TRUE, data |-> fileBuffer]
    /\ xpc' = "done"
    /\ UNCHANGED <<inBuf, fileBuffer, signatureIndex, tailSignatureIndex, xerr>>
    /\ UNCHANGED <<ovars, pvars>>

\* fileBuffer = fileBuffer.slice(headerEndIndex)
XSliceHeader ==
    /\ xpc = "sliceHeader"
    /\ fileBuffer' = AfterHeaderRemoval(fileBuffer, signatureIndex)
    /\ xpc' = "findTail"
    /\ UNCHANGED <<inBuf, signatureIndex, tailSignatureIndex, outFile, xerr>>
    /\ UNCHANGED <<ovars, pvars>>

\* the tail search loop, then the truncation when it found the pattern
XFindTail ==
    /\ xpc = "findTail"
    /\ tailSignatureIndex' = FindTailSignatureIndex(fileBuffer)
    /\ fileBuffer' = IF tailSignatureIndex' # -1
                        THEN Slice(fileBuffer, 0, tailSignatureIndex')
                        ELSE fileBuffer
    /\ xpc' = "write"
    /\ UNCHANGED <<inBuf, signatureIndex, outFile, xerr>>
    /\ UNCHANGED <<ovars, pvars>>

\* await writeFile(outputPath, fileBuffer)
XWriteFile ==
    /\ xpc = "write"
    /\ outFile' = [written |-> TRUE, data |-> fileBuffer]
    /\ xpc' = "done"
    /\ UNCHANGED <<inBuf, fileBuffer, signatureIndex, tailSignatureIndex, xerr>>
    /\ UNCHANGED <<ovars, pvars>>

\* writeFile rejects (either call): caught, logged, rethrown
XWriteFileFails ==
    /\ xpc \in {"copy", "write"}
    /\ xpc' = "threw"
    /\ xerr' = "writeFile"
    /\ UNCHANGED <<inBuf, fileBuffer, signatureIndex, tailSignatureIndex, outFile>>
    /\ UNCHANGED <<ovars, pvars>>

XNext ==
    \/ XReadFile
    \/ XReadFileFails
    \/ XFindHeader
    \/ XCopyThrough
    \/ XSliceHeader
    \/ XFindTail
    \/ XWriteFile
    \/ XWriteFileFails

SpecExtract == XInit /\ [][XNext]_vars

-----------------------------------------------------------------------------
(* Pipeline: downloadAndProcessDroid                                       *)

\* the remote versions the CLI script may announce; the first is also the
\* version fetch_version_from_cli falls back to
Versions == {"0.27.4", "0.30.0"}

\* what the request for the CLI script can yield: fetch rejects, the body
\* holds no VER="..." match, or the body announces a version
ScriptResponses == {"reject", "noVER"} \cup Versions

\* fetch_version_from_cli: the matched version, or the fallback when the
\* fetch rejected or nothing matched (the throw is caught in the function)
fetch_version_from_cli(resp) ==
    IF resp \in Versions THEN resp ELSE FallbackVersion

\* what the request for the binary can yield: a response with ok, a response
\* without ok, a rejected fetch, a pipeline that fails while streaming
BinaryResponses == {"ok", "notOk", "reject", "streamFail"}

\* a download that takes any response for a good one
DownloadSucceedsUnchecked(resp) == resp \in {"ok", "notOk"}

\* downloadFile resolves only for an ok response that streamed to the end
DownloadSucceeds(resp) == resp = "ok"

\* readConfig: JSON.parse of the file's text; the default record when access,
\* readFile or JSON.parse throws
readConfig(file, readable) ==
    IF ~readable \/ file.kind \in {"missing", "corrupt"}
        THEN DefaultConfig
        ELSE file.value

\* the version of the record left as it was read
WithVersionKept(cfg, ver) == cfg

\* config.version = downloadInfo.version
WithVersion(cfg, ver) == [cfg EXCEPT !.version = ver]

\* a comparison that is never true: every run downloads
VersionUnchangedNever(cfg, ver) == FALSE

\* if (config.version && config.version === downloadInfo.version)
VersionUnchanged(cfg, ver) == cfg.version # "" /\ cfg.version = ver

\* the awaited steps after the version check, in the order of the code
StepOrder ==
    << "mkdirOut", "download", "extract", "patch", "mkdirPkg",
       "writeMain", "writeManifest", "rmOut", "writeConfig" >>

StepIndex(step) == CHOOSE i \in 1..Len(StepOrder) : StepOrder[i] = step

\* where a step that resolved leads: the next await, or the return
NextStep(step) ==
    IF StepIndex(step) = Len(StepOrder) THEN "returned"
    ELSE StepOrder[StepIndex(step) + 1]

\* a catch that logs and goes on with the next statement
AfterFailureSwallowed(step) == NextStep(step)

\* a step that rejected: the catch of downloadAndProcessDroid logs and rethrows
AfterFailure(step) == "threw"

\* the config files a first run may find
InitialConfigFiles ==
    {MissingFile, CorruptFile, ConfigFileOf(NullConfig)}
        \cup { ConfigFileOf([DefaultConfig EXCEPT !.version = v]) :
                   v \in Versions \cup {""} }

Init ==
    /\ XIdle
    /\ PIdle
    /\ configFile \in InitialConfigFiles
    /\ outDir = NoDir
    /\ pkgDir = NoPkg
    /\ pc = "idle"
    /\ config = DefaultConfig
    /\ remoteVer = ""
    /\ outcome = "none"
    /\ runs = 0
    /\ attempted = << >>
    /\ failedAt = "none"
    /\ netFailed = {}
    /\ cfgUnreadable = FALSE
    /\ snapshot = << configFile, outDir, pkgDir >>

\* a call of downloadAndProcessDroid (the first, or one after a run ended)
StartRun ==
    /\ pc \in {"idle", "returned", "threw"}
    /\ runs < MaxRuns
    /\ runs' = runs + 1
    /\ pc' = "readConfig"
    /\ outcome' = "none"
    /\ attempted' = << >>
    /\ failedAt' = "none"
    /\ netFailed' = {}
    /\ cfgUnreadable' = FALSE
    /\ snapshot' = << configFile, outDir, pkgDir >>
    /\ remoteVer' = ""
    /\ config' = DefaultConfig
    /\ UNCHANGED <<configFile, outDir, pkgDir>>
    /\ UNCHANGED <<xvars, pvars>>

\* const config = await readConfig(configPath); then the log line that reads
\* config.version, which throws a TypeError when the file held `null`
ReadConfig ==
    /\ pc = "readConfig"
    /\ \E readable \in BOOLEAN :
        /\ cfgUnreadable' = ~readable
        /\ config' = readConfig(configFile, readable)
    /\ IF config'.isNull
          THEN pc' = "threw" /\ outcome' = "failed"
          ELSE pc' = "fetchVersion" /\ outcome' = outcome
    /\ UNCHANGED <<configFile, outDir, pkgDir, remoteVer, runs, attempted,
                   failedAt, netFailed, snapshot>>
    /\ UNCHANGED <<xvars, pvars>>

\* const downloadInfo = await fetch_droid_download_link('windows', 'x64', true)
FetchVersion ==
    /\ pc = "fetchVersion"
    /\ \E resp \in ScriptResponses :
        /\ remoteVer' = fetch_version_from_cli(resp)
        /\ netFailed' = IF resp \in Versions THEN netFailed
                        ELSE netFailed \cup {"versionScript"}
    /\ pc' = "check"
    /\ UNCHANGED <<configFile, outDir, pkgDir, config, outcome, runs, attempted,
                   failedAt, cfgUnreadable, snapshot>>
    /\ UNCHANGED <<xvars, pvars>>

\* the version comparison: return, or go on to the first step
CheckVersion ==
    /\ pc = "check"
    /\ IF VersionUnchanged(config, remoteVer)
          THEN pc' = "returned" /\ outcome' = "skipped"
          ELSE pc' = StepOrder[1] /\ outcome' = outcome
    /\ UNCHANGED <<configFile, outDir, pkgDir, config, remoteVer, runs, attempted,
                   failedAt, netFailed, cfgUnreadable, snapshot>>
    /\ UNCHANGED <<xvars, pvars>>

\* bookkeeping shared by the steps: a step that resolved
Resolved(step) ==
    /\ pc = step
    /\ attempted' = Append(attempted, step)
    /\ pc' = NextStep(step)
    /\ outcome' = IF pc' = "returned" THEN "completed" ELSE outcome
    /\ failedAt' = failedAt
    /\ UNCHANGED <<runs, cfgUnreadable, snapshot>>
    /\ UNCHANGED <<xvars, pvars>>

\* bookkeeping shared by the steps: a step that rejected
Rejected(step) ==
    /\ pc = step
    /\ attempted' = Append(attempted, step)
    /\ pc' = AfterFailure(step)
    /\ outcome' = IF pc' = "threw" THEN "failed"
                  ELSE IF pc' = "returned" THEN "completed" ELSE outcome
    /\ failedAt' = step
    /\ UNCHANGED <<runs, cfgUnreadable, snapshot>>
    /\ UNCHANGED <<xvars, pvars>>

\* what a rejected write can leave of the file it was writing
Residue(old) == {old, "partial"}

\* await mkdir(outputDir, { recursive: true })
MkdirOut ==
    /\ Resolved("mkdirOut")
    /\ outDir' = [outDir EXCEPT !.exists = TRUE]
    /\ UNCHANGED <<configFile, pkgDir, config, remoteVer, netFailed>>

MkdirOutFails ==
    /\ Rejected("mkdirOut")
    /\ UNCHANGED <<configFile, outDir, pkgDir, config, remoteVer, netFailed>>

\* await downloadFile(downloadInfo.binaryUrl, binaryPath)
Download ==
    /\ \E resp \in BinaryResponses :
        /\ DownloadSucceeds(resp)
        /\ netFailed' = IF resp = "ok" THEN netFailed ELSE netFailed \cup {"download"}
    /\ Resolved("download")
    /\ outDir' = [outDir EXCEPT !.exe = remoteVer]
    /\ UNCHANGED <<configFile, pkgDir, config, remoteVer>>

\* the response is not ok, fetch rejects, or the stream breaks after
\* createWriteStream opened the file: logged and rethrown
DownloadFails ==
    /\ \E resp \in BinaryResponses :
        /\ ~DownloadSucceeds(resp)
        /\ outDir' = IF resp = "streamFail"
                        THEN [outDir EXCEPT !.exe = "partial"]
                        ELSE outDir
    /\ netFailed' = netFailed \cup {"download"}
    /\ Rejected("download")
    /\ UNCHANGED <<configFile, pkgDir, config, remoteVer>>

\* await removeDroidHeader(binaryPath, processedPath)
Extract ==
    /\ Resolved("extract")
    /\ outDir' = [outDir EXCEPT !.processed = outDir.exe]
    /\ UNCHANGED <<configFile, pkgDir, config, remoteVer, netFailed>>

ExtractFails ==
    /\ Rejected("extract")
    /\ \E r \in Residue(outDir.processed) : outDir' = [outDir EXCEPT !.processed = r]
    /\ UNCHANGED <<configFile, pkgDir, config, remoteVer, netFailed>>

\* await patchFileAst(processedPath, patchedPath, defaultDroidPatchConfig)
Patch ==
    /\ Resolved("patch")
    /\ outDir' = [outDir EXCEPT !.patched = outDir.processed]
    /\ UNCHANGED <<configFile, pkgDir, config, remoteVer, netFailed>>

\* readFile, the parse or writeFile throws
PatchFails ==
    /\ Rejected("patch")
    /\ \E r \in Residue(outDir.patched) : outDir' = [outDir EXCEPT !.patched = r]
    /\ UNCHANGED <<configFile, pkgDir, config, remoteVer, netFailed>>

\* await mkdir(packageDir, { recursive: true })
MkdirPkg ==
    /\ Resolved("mkdirPkg")
    /\ pkgDir' = [pkgDir EXCEPT !.exists = TRUE]
    /\ UNCHANGED <<configFile, outDir, config, remoteVer, netFailed>>

MkdirPkgFails ==
    /\ Rejected("mkdirPkg")
    /\ UNCHANGED <<configFile, outDir, pkgDir, config, remoteVer, netFailed>>

\* await writeFile(packageMainFile, await readFile(patchedPath))
WriteMain ==
    /\ Resolved("writeMain")
    /\ pkgDir' = [pkgDir EXCEPT !.main = outDir.patched]
    /\ UNCHANGED <<configFile, outDir, config, remoteVer, netFailed>>

WriteMainFails ==
    /\ Rejected("writeMain")
    /\ \E r \in Residue(pkgDir.main) : pkgDir' = [pkgDir EXCEPT !.main = r]
    /\ UNCHANGED <<configFile, outDir, config, remoteVer, netFailed>>

\* await writeFile(join(packageDir, 'package.json'), JSON.stringify(packageJson))
WriteManifest ==
    /\ Resolved("writeManifest")
    /\ pkgDir' = [pkgDir EXCEPT !.manifestName = config.packageName,
                                !.manifestVersion = remoteVer]
    /\ UNCHANGED <<configFile, outDir, config, remoteVer, netFailed>>

WriteManifestFails ==
    /\ Rejected("writeManifest")
    /\ \E r \in Residue(pkgDir.manifestVersion) :
           pkgDir' = [pkgDir EXCEPT !.manifestVersion = r]
    /\ UNCHANGED <<configFile, outDir, config, remoteVer, netFailed>>

\* await rm(outputDir, { recursive: true, force: true })
RmOut ==
    /\ Resolved("rmOut")
    /\ outDir' = NoDir
    /\ UNCHANGED <<configFile, pkgDir, config, remoteVer, netFailed>>

RmOutFails ==
    /\ Rejected("rmOut")
    /\ UNCHANGED <<configFile, outDir, pkgDir, config, remoteVer, netFailed>>

\* config.version = downloadInfo.version; await writeConfig(configPath, config)
WriteConfig ==
    /\ Resolved("writeConfig")
    /\ config' = WithVersion(config, remoteVer)
    /\ configFile' = ConfigFileOf(config')
    /\ UNCHANGED <<outDir, pkgDir, remoteVer, netFailed>>

\* writeFile rejects: the file is as it was, or cut short
WriteConfigFails ==
    /\ Rejected("writeConfig")
    /\ config' = [config EXCEPT !.version = remoteVer]
    /\ configFile' \in {configFile, CorruptFile}
    /\ UNCHANGED <<outDir, pkgDir, remoteVer, netFailed>>

Next ==
    \/ StartRun
    \/ ReadConfig
    \/ FetchVersion
    \/ CheckVersion
    \/ MkdirOut
    \/ MkdirOutFails
    \/ Download
    \/ DownloadFails
    \/ Extract
    \/ ExtractFails
    \/ Patch
    \/ PatchFails
    \/ MkdirPkg
    \/ MkdirPkgFails
    \/ WriteMain
    \/ WriteMainFails
    \/ WriteManifest
    \/ WriteManifestFails
    \/ RmOut
    \/ RmOutFails
    \/ WriteConfig
    \/ WriteConfigFails

Spec == Init /\ [][Next]_vars

-----------------------------------------------------------------------------
(* AST rewrite: patchAst                                                   *)

\* ---- nodes: the fields of the @babel/types nodes the rewrite reads ----
\* `start` is the node's position in the parsed text; a node made by a
\* t.* builder has none (-1)
Identifier(n)       == [type |-> "Identifier", name |-> n]
StringLiteral(v)    == [type |-> "StringLiteral", value |-> v]
NullNode            == [type |-> "null"]
BlockStatement(b)   == [type |-> "BlockStatement", body |-> b]
ReturnStatement(a)  == [type |-> "ReturnStatement", argument |-> a]
AwaitExpression(a)  == [type |-> "AwaitExpression", argument |-> a]
CallExpression(c, args) ==
    [type |-> "CallExpression", callee |-> c, arguments |-> args]
MemberExpression(o, prop) ==
    [type |-> "MemberExpression", object |-> o, property |-> prop]
ArrowFunctionExpression(b, isAsync) ==
    [type |-> "ArrowFunctionExpression", async |-> isAsync, params |-> << >>,
     body |-> b]
FunctionExpression(b, isAsync) ==
    [type |-> "FunctionExpression", async |-> isAsync, params |-> << >>,
     body |-> b]
ExpressionStatement(e) ==
    [type |-> "ExpressionStatement", start |-> -1, expression |-> e]
VariableDeclarator(id, init) ==
    [type |-> "VariableDeclarator", id |-> id, init |-> init]
VariableDeclaration(kind, decls) ==
    [type |-> "VariableDeclaration", start |-> -1, kind |-> kind,
     declarations |-> decls]
FunctionDeclaration(id, b, isAsync) ==
    [type |-> "FunctionDeclaration", start |-> -1, id |-> id, async |-> isAsync,
     params |-> << >>, body |-> b]
\* a function, or a method, with a parameter list
WithParams(fn, ps) == [fn EXCEPT !.params = ps]
\* { key() {...} } and class id { key() {...} }; a computed key is [key]
ObjectMethod(key, computed, b) ==
    [type |-> "ObjectMethod", key |-> key, computed |-> computed,
     params |-> << >>, body |-> b]
ObjectExpression(props) == [type |-> "ObjectExpression", properties |-> props]
ClassMethod(key, computed, b) ==
    [type |-> "ClassMethod", key |-> key, computed |-> computed,
     params |-> << >>, body |-> b]
ClassDeclaration(id, methods) ==
    [type |-> "ClassDeclaration", start |-> -1, id |-> id,
     body |-> [type |-> "ClassBody", body |-> methods]]

\* import <specifiers> from "<source>";
ImportDeclaration(specs, source) ==
    [type |-> "ImportDeclaration", start |-> -1, specifiers |-> specs,
     source |-> StringLiteral(source), uid |-> ""]
ImportDefaultSpecifier(localName) ==
    [type |-> "ImportDefaultSpecifier", local |-> Identifier(localName)]
ImportNamespaceSpecifier(localName) ==
    [type |-> "ImportNamespaceSpecifier", local |-> Identifier(localName)]
ImportSpecifier(importedName, localName) ==
    [type |-> "ImportSpecifier", imported |-> Identifier(importedName),
     local |-> Identifier(localName)]
ObjectProperty(key, value, shorthand) ==
    [type |-> "ObjectProperty", key |-> key, value |-> value,
     shorthand |-> shorthand]
ObjectPattern(props) == [type |-> "ObjectPattern", properties |-> props]
\* import.meta
MetaProperty == [type |-> "MetaProperty", meta |-> Identifier("import"),
                 property |-> Identifier("meta")]

\* the statement authCheckCode parses to: (function(){ ... })(); its body is
\* kept whole (no name of the configs below occurs in it)
AuthCheckStatement ==
    ExpressionStatement(
        CallExpression(
            FunctionExpression(BlockStatement(<< [type |-> "AuthCheckBody"] >>), FALSE),
            << >>))

\* a node that path.remove() took out of the tree
Removed == [type |-> "removed"]

\* container[key] = null: what a removed node leaves in a single-node slot
\* whose field is optional (a declarator's init, a return's argument)
Slot(n) == IF n = Removed THEN NullNode ELSE n

\* a null in a slot whose field the node type requires (an await's argument,
\* a call's callee, a member expression's object and property)
MissingNode == [type |-> "missing"]

\* path.remove() in a required single-node slot: path._replaceWith(null) runs
\* t.validate(parent, key, null), which throws for a required field; a build
\* that did not validate would store the null.  Both outcomes are kept: the
\* tree with the null marked, and AnyMissing to tell that the call threw.
Required(n) == IF n = Removed THEN MissingNode ELSE n

\* config.renameIdentifiers[name], for an identifier in binding position: a
\* declared name, or the value of a property of a destructuring pattern
RenameIdentifier(id, cfg) ==
    IF /\ id.type = "Identifier"
       /\ id.name \in DOMAIN cfg.renameIdentifiers
       /\ cfg.renameIdentifiers[id.name] # ""
        THEN Identifier(cfg.renameIdentifiers[id.name])
        ELSE id

RenameBinding(id, cfg) ==
    IF id.type = "ObjectPattern"
        THEN [id EXCEPT !.properties =
                [i \in 1..Len(id.properties) |->
                    [id.properties[i] EXCEPT
                        !.value = RenameIdentifier(id.properties[i].value, cfg)]]]
        ELSE RenameIdentifier(id, cfg)

\* the Identifier visitor over a parameter list
RenameParams(ps, cfg) == [i \in 1..Len(ps) |-> RenameBinding(ps[i], cfg)]

\* t.callExpression(t.identifier('require'), [t.stringLiteral(source)])
RequireCall(source) == CallExpression(Identifier("require"), << source >>)

\* t.objectProperty(t.identifier(spec.imported.name),
\*                  t.identifier(spec.local.name), false,
\*                  spec.imported.name === spec.local.name)
PropertyOfSpecifier(spec) ==
    ObjectProperty(Identifier(spec.imported.name), Identifier(spec.local.name),
                   spec.imported.name = spec.local.name)

PropertiesOf(specs) == [i \in 1..Len(specs) |-> PropertyOfSpecifier(specs[i])]

IsImportSpecifier(spec) == spec.type = "ImportSpecifier"
IsImportDefaultSpecifier(spec) == spec.type = "ImportDefaultSpecifier"

\* each of the default name and the named bindings taken from a require call
\* of its own
MixedImportRequiresTwice(node) ==
    LET defaultSpecs == SelectSeq(node.specifiers, IsImportDefaultSpecifier)
        namedSpecs == SelectSeq(node.specifiers, IsImportSpecifier)
    IN  VariableDeclaration("var",
            (IF Len(defaultSpecs) > 0
                THEN << VariableDeclarator(Identifier(defaultSpecs[1].local.name),
                                           RequireCall(node.source)) >>
                ELSE << >>)
            \o (IF Len(namedSpecs) > 0
                   THEN << VariableDeclarator(ObjectPattern(PropertiesOf(namedSpecs)),
                                              RequireCall(node.source)) >>
                   ELSE << >>))

\* var _temp = require("module"), name = _temp, { a, b } = _temp
MixedImportReplacement(node) ==
    LET defaultSpecs == SelectSeq(node.specifiers, IsImportDefaultSpecifier)
        namedSpecs == SelectSeq(node.specifiers, IsImportSpecifier)
        tempId == Identifier(node.uid)
    IN  VariableDeclaration("var",
            << VariableDeclarator(tempId, RequireCall(node.source)) >>
            \o (IF Len(defaultSpecs) > 0
                   THEN << VariableDeclarator(
                              Identifier(defaultSpecs[1].local.name), tempId) >>
                   ELSE << >>)
            \o (IF Len(namedSpecs) > 0
                   THEN << VariableDeclarator(
                              ObjectPattern(PropertiesOf(namedSpecs)), tempId) >>
                   ELSE << >>))

\* the node the ImportDeclaration visitor hands to path.replaceWith; the
\* import itself when no branch of the visitor applies
ImportReplacement(node) ==
    LET specifiers == node.specifiers
        source == node.source
        defaultSpecs == SelectSeq(specifiers, IsImportDefaultSpecifier)
        namedSpecs == SelectSeq(specifiers, IsImportSpecifier)
    IN  IF Len(specifiers) = 0
            THEN ExpressionStatement(RequireCall(source))
        ELSE IF Len(specifiers) = 1 /\ specifiers[1].type = "ImportNamespaceSpecifier"
            THEN VariableDeclaration("var",
                    << VariableDeclarator(Identifier(specifiers[1].local.name),
                                          RequireCall(source)) >>)
        ELSE IF Len(namedSpecs) = Len(specifiers)
            THEN VariableDeclaration("var",
                    << VariableDeclarator(ObjectPattern(PropertiesOf(specifiers)),
                                          RequireCall(source)) >>)
        ELSE IF Len(specifiers) = 1 /\ specifiers[1].type = "ImportDefaultSpecifier"
            THEN VariableDeclaration("var",
                    << VariableDeclarator(Identifier(specifiers[1].local.name),
                                          RequireCall(source)) >>)
        ELSE IF Len(defaultSpecs) > 0 \/ Len(namedSpecs) > 0
            THEN MixedImportReplacement(node)
        ELSE node

\* require('url').pathToFileURL(__filename).href
FileUrlExpression ==
    MemberExpression(
        CallExpression(
            MemberExpression(RequireCall(StringLiteral("url")),
                             Identifier("pathToFileURL")),
            << Identifier("__filename") >>),
        Identifier("href"))

\* the node the MemberExpression visitor puts in place of import.meta.xxx; the
\* member expression itself when it is none of the two
MetaReplacement(node) ==
    IF node.object.type = "MetaProperty" /\ node.property.type = "Identifier"
        THEN IF node.property.name = "require" THEN Identifier("require")
             ELSE IF node.property.name = "url" THEN FileUrlExpression
             ELSE node
        ELSE node

\* t.blockStatement([t.returnStatement(t.stringLiteral(returnValue))])
ReturnBody(v) == BlockStatement(<< ReturnStatement(StringLiteral(v)) >>)

\* const returnValue = config.replaceFunctionBody[name];
\* returnValue && typeof returnValue === 'string'
HasReplacement(name, cfg) ==
    /\ name \in DOMAIN cfg.replaceFunctionBody
    /\ cfg.replaceFunctionBody[name] # ""

\* the name a call is known by: foo() or obj.foo()
CalleeName(call) ==
    IF call.callee.type = "Identifier" THEN call.callee.name
    ELSE IF call.callee.type = "MemberExpression"
            /\ call.callee.property.type = "Identifier"
        THEN call.callee.property.name
    ELSE ""

\* traverse(ast, visitors) below one node: the visitor of the node's type
\* first, then the node's children in the order of its visitor keys.  The
\* result is the node as rewritten, or Removed.
RECURSIVE Visit(_, _), VisitList(_, _)
Visit(node, cfg) ==
    CASE node.type = "ExpressionStatement" ->
            \* a removed call takes its statement with it
            LET e == Visit(node.expression, cfg)
            IN  IF e = Removed THEN Removed ELSE [node EXCEPT !.expression = e]
      [] node.type = "VariableDeclaration" ->
            \* the last declarator removed takes the declaration with it
            LET ds == VisitList(node.declarations, cfg)
            IN  IF ds = << >> THEN Removed ELSE [node EXCEPT !.declarations = ds]
      [] node.type = "VariableDeclarator" ->
            IF node.id.type = "Identifier" /\ node.id.name \in cfg.removeIdentifiers
                THEN Removed
            ELSE
                LET init1 ==
                        IF /\ node.id.type = "Identifier"
                           /\ HasReplacement(node.id.name, cfg)
                           /\ node.init.type \in {"FunctionExpression",
                                                  "ArrowFunctionExpression"}
                            THEN [node.init EXCEPT
                                    !.body = ReturnBody(cfg.replaceFunctionBody[node.id.name])]
                            ELSE node.init
                IN  [node EXCEPT !.id = RenameBinding(node.id, cfg),
                                 !.init = Slot(Visit(init1, cfg))]
      [] node.type = "FunctionDeclaration" ->
            IF node.id.name \in cfg.removeIdentifiers
                THEN Removed
            ELSE
                LET body1 ==
                        IF HasReplacement(node.id.name, cfg)
                            THEN ReturnBody(cfg.replaceFunctionBody[node.id.name])
                            ELSE node.body
                IN  [node EXCEPT !.id = RenameBinding(node.id, cfg),
                                 !.params = RenameParams(node.params, cfg),
                                 !.body = Visit(body1, cfg)]
      [] node.type = "CallExpression" ->
            IF CalleeName(node) # "" /\ CalleeName(node) \in cfg.removeFunctionCalls
                THEN Removed
            ELSE [node EXCEPT !.callee = Required(Visit(node.callee, cfg)),
                              !.arguments = VisitList(node.arguments, cfg)]
      [] node.type = "MemberExpression" ->
            \* a replacement is queued and visited in its turn
            IF MetaReplacement(node) # node
                THEN Visit(MetaReplacement(node), cfg)
            ELSE [node EXCEPT !.object = Required(Visit(node.object, cfg)),
                              !.property = Required(Visit(node.property, cfg))]
      [] node.type = "ImportDeclaration" ->
            \* the replacement keeps the import's place in the body, and is
            \* queued and visited in its turn
            IF ImportReplacement(node) # node
                THEN Visit([ImportReplacement(node) EXCEPT !.start = node.start], cfg)
            ELSE node
      [] node.type = "AwaitExpression" ->
            [node EXCEPT !.argument = Required(Visit(node.argument, cfg))]
      [] node.type = "ReturnStatement" ->
            [node EXCEPT !.argument = Slot(Visit(node.argument, cfg))]
      [] node.type \in {"ArrowFunctionExpression", "FunctionExpression"} ->
            [node EXCEPT !.params = RenameParams(node.params, cfg),
                         !.body = Visit(node.body, cfg)]
      [] node.type \in {"ObjectMethod", "ClassMethod"} ->
            \* the key is compared whether or not it is computed
            LET body1 ==
                    IF node.key.type = "Identifier" /\ HasReplacement(node.key.name, cfg)
                        THEN ReturnBody(cfg.replaceFunctionBody[node.key.name])
                        ELSE node.body
            IN  [node EXCEPT !.params = RenameParams(node.params, cfg),
                             !.body = Visit(body1, cfg)]
      [] node.type = "ObjectExpression" ->
            [node EXCEPT !.properties = VisitList(node.properties, cfg)]
      [] node.type = "ClassDeclaration" ->
            [node EXCEPT !.id = RenameBinding(node.id, cfg),
                         !.body = Visit(node.body, cfg)]
      [] node.type \in {"BlockStatement", "ClassBody"} ->
            [node EXCEPT !.body = VisitList(node.body, cfg)]
      [] OTHER -> node

\* a list container: the nodes in order, the removed ones gone
VisitList(nodes, cfg) ==
    IF nodes = << >> THEN << >>
    ELSE LET n == Visit(Head(nodes), cfg)
         IN  IF n = Removed THEN VisitList(Tail(nodes), cfg)
             ELSE << n >> \o VisitList(Tail(nodes), cfg)

\* does the import reach path.scope.generateUidIdentifier('temp'): none of
\* the four returns before it is taken, and there is a default or a named
\* specifier
UsesTemp(node) ==
    /\ node.type = "ImportDeclaration"
    /\ Len(node.specifiers) >= 2
    /\ \E k \in 1..Len(node.specifiers) : ~IsImportSpecifier(node.specifiers[k])
    /\ \E k \in 1..Len(node.specifiers) :
          IsImportDefaultSpecifier(node.specifiers[k])
              \/ IsImportSpecifier(node.specifiers[k])

\* the names generateUidIdentifier('temp') hands out, in the order of the
\* calls, in a program that uses none of them itself
TempNames == << "_temp", "_temp2", "_temp3", "_temp4", "_temp5" >>

\* each import that asks for a temporary gets the next name; the imports are
\* visited in the order of the program body
WithUids(body) ==
    [i \in 1..Len(body) |->
        IF UsesTemp(body[i])
            THEN [body[i] EXCEPT !.uid =
                    TempNames[Cardinality({ j \in 1..i : UsesTemp(body[j]) })]]
            ELSE body[i]]

\* traverse(ast, {...}) over the program body
Traverse(body, cfg) == VisitList(WithUids(body), cfg)

\* does the tree hold a null in a required slot
RECURSIVE HasMissing(_), AnyMissing(_)
HasMissing(node) ==
    CASE node.type = "missing" -> TRUE
      [] node.type = "ExpressionStatement" -> HasMissing(node.expression)
      [] node.type = "VariableDeclaration" -> AnyMissing(node.declarations)
      [] node.type = "VariableDeclarator" -> HasMissing(node.init)
      [] node.type = "FunctionDeclaration" -> HasMissing(node.body)
      [] node.type = "CallExpression" ->
            HasMissing(node.callee) \/ AnyMissing(node.arguments)
      [] node.type = "MemberExpression" ->
            HasMissing(node.object) \/ HasMissing(node.property)
      [] node.type \in {"AwaitExpression", "ReturnStatement"} ->
            HasMissing(node.argument)
      [] node.type \in {"ArrowFunctionExpression", "FunctionExpression",
                        "ObjectMethod", "ClassMethod", "ClassDeclaration"} ->
            HasMissing(node.body)
      [] node.type = "ObjectExpression" -> AnyMissing(node.properties)
      [] node.type \in {"BlockStatement", "ClassBody"} -> AnyMissing(node.body)
      [] OTHER -> FALSE

AnyMissing(nodes) == \E i \in 1..Len(nodes) : HasMissing(nodes[i])

\* the code parsed as it is, with nothing put in front of it
ParseWithoutAuthCheck(stmts) ==
    [i \in 1..Len(stmts) |-> [stmts[i] EXCEPT !.start = i]]

\* parse(authCheckCode + code): the snippet's statement, then the statements
\* of code, each at its position in the text
Parse(stmts) ==
    LET all == << AuthCheckStatement >> \o stmts
    IN  [i \in 1..Len(all) |-> [all[i] EXCEPT !.start = i - 1]]

\* t.isExpressionStatement(node) && t.isAwaitExpression(node.expression)
IsTopLevelAwaitStatement(node) ==
    node.type = "ExpressionStatement" /\ node.expression.type = "AwaitExpression"

IsNotTopLevelAwaitStatement(node) == ~IsTopLevelAwaitStatement(node)

\* (async () => { await ...; })();
AsyncIIFE(stmts) ==
    ExpressionStatement(
        CallExpression(ArrowFunctionExpression(BlockStatement(stmts), TRUE), << >>))

\* the await statements wrapped and put first instead of last
RelocateAwaitsInFront(body) ==
    LET topLevelAwaitStatements == SelectSeq(body, IsTopLevelAwaitStatement)
        rest == SelectSeq(body, IsNotTopLevelAwaitStatement)
    IN  IF Len(topLevelAwaitStatements) > 0
            THEN << AsyncIIFE(topLevelAwaitStatements) >> \o rest
            ELSE rest

\* the pass over ast.program.body after the traversal: the top-level await
\* statements are taken out and, when there are any, appended in one IIFE
RelocateAwaits(body) ==
    LET topLevelAwaitStatements == SelectSeq(body, IsTopLevelAwaitStatement)
        rest == SelectSeq(body, IsNotTopLevelAwaitStatement)
    IN  IF Len(topLevelAwaitStatements) > 0
            THEN Append(rest, AsyncIIFE(topLevelAwaitStatements))
            ELSE rest

\* generate(ast).code as a token sequence; a null child prints nothing
RECURSIVE Render(_), RenderList(_, _)
Render(node) ==
    CASE node.type = "Identifier" -> << node.name >>
      [] node.type = "StringLiteral" -> << "\"", node.value, "\"" >>
      [] node.type = "ExpressionStatement" ->
            Render(node.expression) \o << ";" >>
      [] node.type = "VariableDeclaration" ->
            << node.kind >> \o RenderList(node.declarations, << "," >>) \o << ";" >>
      [] node.type = "VariableDeclarator" ->
            Render(node.id) \o
            (IF node.init = NullNode THEN << >> ELSE << "=" >> \o Render(node.init))
      [] node.type = "FunctionDeclaration" ->
            (IF node.async THEN << "async" >> ELSE << >>) \o << "function" >>
                \o Render(node.id) \o << "(" >> \o RenderList(node.params, << "," >>)
                \o << ")" >> \o Render(node.body)
      [] node.type = "FunctionExpression" ->
            (IF node.async THEN << "async" >> ELSE << >>) \o << "function", "(" >>
                \o RenderList(node.params, << "," >>) \o << ")" >>
                \o Render(node.body)
      [] node.type = "ArrowFunctionExpression" ->
            (IF node.async THEN << "async" >> ELSE << >>) \o << "(" >>
                \o RenderList(node.params, << "," >>) \o << ")", "=>" >>
                \o Render(node.body)
      [] node.type \in {"ObjectMethod", "ClassMethod"} ->
            (IF node.computed THEN << "[" >> \o Render(node.key) \o << "]" >>
                              ELSE Render(node.key))
                \o << "(" >> \o RenderList(node.params, << "," >>) \o << ")" >>
                \o Render(node.body)
      [] node.type = "ObjectExpression" ->
            << "{" >> \o RenderList(node.properties, << "," >>) \o << "}" >>
      [] node.type = "ClassDeclaration" ->
            << "class" >> \o Render(node.id) \o Render(node.body)
      [] node.type = "ClassBody" ->
            << "{" >> \o RenderList(node.body, << >>) \o << "}" >>
      [] node.type = "CallExpression" ->
            (IF node.callee.type \in {"ArrowFunctionExpression", "FunctionExpression"}
                THEN << "(" >> \o Render(node.callee) \o << ")" >>
                ELSE Render(node.callee))
                \o << "(" >> \o RenderList(node.arguments, << "," >>) \o << ")" >>
      [] node.type = "MemberExpression" ->
            Render(node.object) \o << "." >> \o Render(node.property)
      [] node.type = "AwaitExpression" -> << "await" >> \o Render(node.argument)
      [] node.type = "ReturnStatement" ->
            << "return" >> \o Render(node.argument) \o << ";" >>
      [] node.type = "BlockStatement" ->
            << "{" >> \o RenderList(node.body, << >>) \o << "}" >>
      [] node.type = "ObjectPattern" ->
            << "{" >> \o RenderList(node.properties, << "," >>) \o << "}" >>
      [] node.type = "ObjectProperty" ->
            IF node.shorthand /\ node.key = node.value THEN Render(node.key)
            ELSE Render(node.key) \o << ":" >> \o Render(node.value)
      [] node.type = "MetaProperty" -> << "import", ".", "meta" >>
      [] node.type = "ImportDeclaration" ->
            << "import" >> \o RenderList(node.specifiers, << "," >>)
                \o << "from" >> \o Render(node.source) \o << ";" >>
      [] node.type = "ImportDefaultSpecifier" -> Render(node.local)
      [] node.type = "ImportNamespaceSpecifier" ->
            << "*", "as" >> \o Render(node.local)
      [] node.type = "ImportSpecifier" ->
            << "{" >> \o Render(node.imported) \o << "as" >> \o Render(node.local)
                \o << "}" >>
      [] node.type = "AuthCheckBody" -> << "authCheckCode" >>
      [] OTHER -> << >>

RenderList(nodes, sep) ==
    IF nodes = << >> THEN << >>
    ELSE IF Len(nodes) = 1 THEN Render(nodes[1])
    ELSE Render(Head(nodes)) \o sep \o RenderList(Tail(nodes), sep)

Generate(body) == RenderList(body, << >>)

\* ---- arguments ----
\* defaultDroidPatchConfig
defaultDroidPatchConfig ==
    [removeIdentifiers |-> {}, renameIdentifiers |-> << >>,
     removeFunctionCalls |-> {},
     replaceFunctionBody |-> [n \in {"runAutoUpdate"} |-> "no-update"]]

\* a config that removes the calls of f and of require, and the declarations
\* of k
RemovingPatchConfig ==
    [removeIdentifiers |-> {"k"}, renameIdentifiers |-> << >>,
     removeFunctionCalls |-> {"f", "require"}, replaceFunctionBody |-> << >>]

PatchConfigs == {EmptyPatchConfig, defaultDroidPatchConfig, RemovingPatchConfig}

AwaitG == ExpressionStatement(AwaitExpression(Identifier("g")))

\* the top-level statements programs are made of
StatementPool ==
    << \* await f();
       ExpressionStatement(AwaitExpression(CallExpression(Identifier("f"), << >>))),
       \* await g;
       AwaitG,
       \* const x = await g;
       VariableDeclaration("const",
           << VariableDeclarator(Identifier("x"), AwaitExpression(Identifier("g"))) >>),
       \* h(await g);
       ExpressionStatement(
           CallExpression(Identifier("h"), << AwaitExpression(Identifier("g")) >>)),
       \* async function k() { await g; }
       FunctionDeclaration(Identifier("k"), BlockStatement(<< AwaitG >>), TRUE),
       \* (async () => { await g; })();
       AsyncIIFE(<< AwaitG >>),
       \* h();
       ExpressionStatement(CallExpression(Identifier("h"), << >>)),
       \* f();
       ExpressionStatement(CallExpression(Identifier("f"), << >>)) >>

Programs ==
    UNION { [1..n -> { StatementPool[i] : i \in 1..Len(StatementPool) }] :
                n \in 0..MaxStmts }

PInit ==
    /\ XIdle
    /\ OIdle
    /\ code \in Programs
    /\ patchConfig \in PatchConfigs
    /\ ast = << >>
    /\ traversed = << >>
    /\ output = << >>
    /\ ppc = "parse"

\* const ast = parse(authCheckCode + code, {...})
PParse ==
    /\ ppc = "parse"
    /\ ast' = Parse(code)
    /\ ppc' = "traverse"
    /\ UNCHANGED <<code, patchConfig, traversed, output>>
    /\ UNCHANGED <<xvars, ovars>>

\* the parser throws: logged and rethrown
PParseFails ==
    /\ ppc = "parse"
    /\ ppc' = "threw"
    /\ UNCHANGED <<code, patchConfig, ast, traversed, output>>
    /\ UNCHANGED <<xvars, ovars>>

\* traverse(ast, {...})
PTraverse ==
    /\ ppc = "traverse"
    /\ ast' = Traverse(ast, patchConfig)
    /\ traversed' = ast'
    /\ ppc' = "relocate"
    /\ UNCHANGED <<code, patchConfig, output>>
    /\ UNCHANGED <<xvars, ovars>>

\* a visitor's path.remove() throws: logged and rethrown
PTraverseFails ==
    /\ ppc = "traverse"
    /\ AnyMissing(Traverse(ast, patchConfig))
    /\ ppc' = "threw"
    /\ UNCHANGED <<code, patchConfig, ast, traversed, output>>
    /\ UNCHANGED <<xvars, ovars>>

\* ast.program.body = ...map(...).filter(...); ast.program.body.push(asyncIIFE)
PRelocate ==
    /\ ppc = "relocate"
    /\ ast' = RelocateAwaits(ast)
    /\ ppc' = "generate"
    /\ UNCHANGED <<code, patchConfig, traversed, output>>
    /\ UNCHANGED <<xvars, ovars>>

\* return generate(ast, {...}).code
PGenerate ==
    /\ ppc = "generate"
    /\ output' = Generate(ast)
    /\ ppc' = "done"
    /\ UNCHANGED <<code, patchConfig, ast, traversed>>
    /\ UNCHANGED <<xvars, ovars>>

PNext ==
    \/ PParse
    \/ PParseFails
    \/ PTraverse
    \/ PTraverseFails
    \/ PRelocate
    \/ PGenerate

SpecPatch == PInit /\ [][PNext]_vars

\* ---- programs of imports ----
\* the import statements programs are made of
ImportPool ==
    << \* import "m";
       ImportDeclaration(<< >>, "m"),
       \* import * as ns from "m";
       ImportDeclaration(<< ImportNamespaceSpecifier("ns") >>, "m"),
       \* import {a, b as c} from "m";
       ImportDeclaration(<< ImportSpecifier("a", "a"), ImportSpecifier("b", "c") >>, "m"),
       \* import Def from "m";
       ImportDeclaration(<< ImportDefaultSpecifier("Def") >>, "m"),
       \* import Def, {x} from "m";
       ImportDeclaration(<< ImportDefaultSpecifier("Def"), ImportSpecifier("x", "x") >>,
                         "m"),
       \* import Def, * as ns from "m";
       ImportDeclaration(<< ImportDefaultSpecifier("Def"),
                            ImportNamespaceSpecifier("ns") >>, "m"),
       \* import k from "n";
       ImportDeclaration(<< ImportDefaultSpecifier("k") >>, "n"),
       \* h(import.meta.url);
       ExpressionStatement(
           CallExpression(Identifier("h"),
               << MemberExpression(MetaProperty, Identifier("url")) >>)),
       \* import.meta.require("m");
       ExpressionStatement(
           CallExpression(MemberExpression(MetaProperty, Identifier("require")),
                          << StringLiteral("m") >>)) >>

ImportPrograms ==
    UNION { [1..n -> { ImportPool[i] : i \in 1..Len(ImportPool) }] :
                n \in 0..MaxStmts }

PInitImports ==
    /\ XIdle
    /\ OIdle
    /\ code \in ImportPrograms
    /\ patchConfig \in PatchConfigs
    /\ ast = << >>
    /\ traversed = << >>
    /\ output = << >>
    /\ ppc = "parse"

SpecImports == PInitImports /\ [][PNext]_vars

\* ---- programs of functions and calls ----
\* a config that replaces the body of foo
ReplacingPatchConfig ==
    [removeIdentifiers |-> {}, renameIdentifiers |-> << >>,
     removeFunctionCalls |-> {},
     replaceFunctionBody |-> [n \in {"foo"} |-> "x"]]

\* a config whose replacement value for foo is the empty string
BlankReplacingPatchConfig ==
    [removeIdentifiers |-> {}, renameIdentifiers |-> << >>,
     removeFunctionCalls |-> {},
     replaceFunctionBody |-> [n \in {"foo"} |-> ""]]

RewriteConfigs ==
    {EmptyPatchConfig, ReplacingPatchConfig, BlankReplacingPatchConfig,
     RemovingPatchConfig}

\* { h(); }
BodyH == BlockStatement(<< ExpressionStatement(CallExpression(Identifier("h"), << >>)) >>)

\* f()
CallF == CallExpression(Identifier("f"), << >>)

\* the statements programs are made of
RewritePool ==
    << \* function foo(a) { h(); }
       WithParams(FunctionDeclaration(Identifier("foo"), BodyH, FALSE),
                  << Identifier("a") >>),
       \* const foo = function (a) { h(); };
       VariableDeclaration("const",
           << VariableDeclarator(Identifier("foo"),
                  WithParams(FunctionExpression(BodyH, FALSE), << Identifier("a") >>)) >>),
       \* const foo = () => { h(); };
       VariableDeclaration("const",
           << VariableDeclarator(Identifier("foo"),
                                 ArrowFunctionExpression(BodyH, FALSE)) >>),
       \* const o = { foo(a) { h(); } };
       VariableDeclaration("const",
           << VariableDeclarator(Identifier("o"),
                  ObjectExpression(
                      << WithParams(ObjectMethod(Identifier("foo"), FALSE, BodyH),
                                    << Identifier("a") >>) >>)) >>),
       \* class C { foo(a) { h(); } bar() { h(); } }
       ClassDeclaration(Identifier("C"),
           << WithParams(ClassMethod(Identifier("foo"), FALSE, BodyH),
                         << Identifier("a") >>),
              ClassMethod(Identifier("bar"), FALSE, BodyH) >>),
       \* function bar() { h(); }
       FunctionDeclaration(Identifier("bar"), BodyH, FALSE),
       \* f();
       ExpressionStatement(CallF),
       \* let y = f();
       VariableDeclaration("let", << VariableDeclarator(Identifier("y"), CallF) >>),
       \* h(f());
       ExpressionStatement(CallExpression(Identifier("h"), << CallF >>)),
       \* f().g();
       ExpressionStatement(
           CallExpression(MemberExpression(CallF, Identifier("g")), << >>)) >>

RewritePrograms ==
    UNION { [1..n -> { RewritePool[i] : i \in 1..Len(RewritePool) }] :
                n \in 0..MaxStmts }

PInitRewrite ==
    /\ XIdle
    /\ OIdle
    /\ code \in RewritePrograms
    /\ patchConfig \in RewriteConfigs
    /\ ast = << >>
    /\ traversed = << >>
    /\ output = << >>
    /\ ppc = "parse"

SpecRewrite == PInitRewrite /\ [][PNext]_vars

\* ---- programs that mix the kinds of statements above ----
MixedPool ==
    << StatementPool[1], StatementPool[2], StatementPool[3], StatementPool[7],
       ImportPool[3], ImportPool[4], ImportPool[5], ImportPool[8], ImportPool[9],
       RewritePool[1], RewritePool[5], RewritePool[8] >>

MixedPrograms ==
    UNION { [1..n -> { MixedPool[i] : i \in 1..Len(MixedPool) }] :
                n \in 0..MaxStmts }

PInitMixed ==
    /\ XIdle
    /\ OIdle
    /\ code \in MixedPrograms
    /\ patchConfig \in PatchConfigs
    /\ ast = << >>
    /\ traversed = << >>
    /\ output = << >>
    /\ ppc = "parse"

SpecMixed == PInitMixed /\ [][PNext]_vars

-----------------------------------------------------------------------------
(* Properties of removeDroidHeader, stated on the files it reads and writes *)

\* the 0-based offsets at which pat occurs in buf, byte for byte
Occurrences(buf, pat) ==
    { i \in 0..(Len(buf) - Len(pat)) : SubSeq(buf, i + 1, i + Len(pat)) = pat }

SetMin(S) == CHOOSE x \in S : \A y \in S : x <= y
SetMax(S) == CHOOSE x \in S : \A y \in S : x >= y

HasHeader(buf) == Occurrences(buf, signaturePattern) # {}

\* what follows the first header occurrence of buf (buf has one)
Remainder(buf) ==
    LET i == SetMin(Occurrences(buf, signaturePattern))
    IN  SubSeq(buf, i + Len(signaturePattern) + 1, Len(buf))

\* C1: an input without the header pattern is written out byte for byte: the
\* run never reaches the slice, the tail search or the truncation, whatever it
\* writes is the input, and nothing but a rejected readFile or writeFile makes
\* the function throw.
C1_NoHeaderCopiesInput ==
    ~HasHeader(inBuf) =>
        /\ xpc \notin {"sliceHeader", "findTail", "write"}
        /\ tailSignatureIndex = -1
        /\ (outFile.written => outFile.data = inBuf)
        /\ (xpc = "done" => outFile.written)
        /\ (xpc = "threw" => xerr \in {"readFile", "writeFile"})

\* an input with the tail pattern and without the header pattern, copied whole
C1_Witness ==
    /\ xpc = "done"
    /\ ~HasHeader(inBuf)
    /\ Occurrences(inBuf, tailSignaturePattern) # {}
    /\ outFile = [written |-> TRUE, data |-> inBuf]

\* C2: when the header pattern first occurs at offset i and what follows it
\* holds no tail pattern, the output is exactly buffer[i + len(header):].
C2_HeaderOnlyDropsPrefix ==
    (xpc = "done" /\ HasHeader(inBuf)
        /\ Occurrences(Remainder(inBuf), tailSignaturePattern) = {}) =>
        LET i == SetMin(Occurrences(inBuf, signaturePattern))
        IN  /\ signatureIndex = i
            /\ outFile.written
            /\ outFile.data = SubSeq(inBuf, i + Len(signaturePattern) + 1, Len(inBuf))

\* a header that is not at offset 0, followed by bytes and no tail pattern
C2_Witness ==
    /\ xpc = "done"
    /\ HasHeader(inBuf)
    /\ SetMin(Occurrences(inBuf, signaturePattern)) > 0
    /\ Occurrences(Remainder(inBuf), tailSignaturePattern) = {}
    /\ outFile.written
    /\ outFile.data # << >>
    /\ outFile.data = Remainder(inBuf)

\* C3: when what follows the header holds the tail pattern more than once, the
\* output is that remainder cut at the greatest offset where the tail matches.
C3_TruncatesAtLastTail ==
    (xpc = "done" /\ HasHeader(inBuf)
        /\ Cardinality(Occurrences(Remainder(inBuf), tailSignaturePattern)) > 1) =>
        LET j == SetMax(Occurrences(Remainder(inBuf), tailSignaturePattern))
        IN  /\ tailSignatureIndex = j
            /\ outFile.written
            /\ outFile.data = SubSeq(Remainder(inBuf), 1, j)

\* two tail patterns after the header: the output runs up to the second one
C3_Witness ==
    /\ xpc = "done"
    /\ HasHeader(inBuf)
    /\ Cardinality(Occurrences(Remainder(inBuf), tailSignaturePattern)) > 1
    /\ outFile.written
    /\ Len(outFile.data) > SetMin(Occurrences(Remainder(inBuf), tailSignaturePattern))

\* C4: the header is searched in the file as read and the tail only in what
\* follows the first header: the tail offset found is an offset into that
\* remainder where the tail pattern stands, the output is a prefix of the
\* remainder, and a tail pattern that starts before the end of the first
\* header cuts nothing.
C4_TailSearchedAfterHeaderRemoval ==
    (xpc \in {"write", "done"} /\ HasHeader(inBuf)) =>
        LET h    == SetMin(Occurrences(inBuf, signaturePattern))
            rem  == Remainder(inBuf)
            tocc == Occurrences(rem, tailSignaturePattern)
        IN  /\ signatureIndex = h
            /\ tailSignatureIndex # -1 =>
                   /\ tailSignatureIndex \in tocc
                   /\ h + Len(signaturePattern) + tailSignatureIndex
                          \in Occurrences(inBuf, tailSignaturePattern)
            /\ Len(fileBuffer) <= Len(rem)
            /\ fileBuffer = SubSeq(rem, 1, Len(fileBuffer))
            /\ tocc = {} => (tailSignatureIndex = -1 /\ fileBuffer = rem)
            /\ (xpc = "done" => outFile = [written |-> TRUE, data |-> fileBuffer])

\* a tail pattern stands before the header and none after it: nothing is cut
C4_Witness ==
    /\ xpc = "done"
    /\ HasHeader(inBuf)
    /\ \E t \in Occurrences(inBuf, tailSignaturePattern) :
           t < SetMin(Occurrences(inBuf, signaturePattern))
    /\ Occurrences(Remainder(inBuf), tailSignaturePattern) = {}
    /\ outFile.data = Remainder(inBuf)
    /\ outFile.data # << >>

-----------------------------------------------------------------------------
(* Properties of downloadAndProcessDroid                                   *)

Persisted == << configFile, outDir, pkgDir >>

\* C5: when the version read from the config file is non-empty and equals the
\* remote version just discovered, the run returns at once: no step of the
\* pipeline is started and the config file, the working directory and the
\* package directory are what the run found.
C5_SameVersionDoesNothing ==
    /\ [][ (pc = "check" /\ config.version # "" /\ config.version = remoteVer) =>
             /\ pc' = "returned"
             /\ outcome' = "skipped"
             /\ attempted' = << >>
             /\ Persisted' = Persisted ]_vars
    /\ [](outcome = "skipped" =>
             /\ pc = "returned"
             /\ attempted = << >>
             /\ Persisted = snapshot
             /\ config.version # "" /\ config.version = remoteVer)

\* a second run finds the version the first run recorded and leaves the
\* package of the first run alone
C5_Witness ==
    /\ runs = 2
    /\ outcome = "skipped"
    /\ pc = "returned"
    /\ config.version = remoteVer
    /\ pkgDir.main = remoteVer
    /\ Persisted = snapshot

\* C6: a step that rejects ends the run: the steps started are the steps of
\* the code up to the one that failed and no other, the run throws, and the
\* config file does not get the new version (it is as the run found it, or cut
\* short by the failed write itself). The config file changes only after all
\* the earlier steps were run, and only a run without a failed step completes.
C6_FailedStepAbortsRun ==
    /\ failedAt # "none" =>
          /\ pc = "threw"
          /\ outcome = "failed"
          /\ attempted = SubSeq(StepOrder, 1, StepIndex(failedAt))
          /\ configFile \in {snapshot[1], CorruptFile}
          /\ (configFile # snapshot[1] => failedAt = "writeConfig")
    /\ configFile # snapshot[1] => attempted = StepOrder
    /\ outcome = "completed" =>
          /\ failedAt = "none"
          /\ attempted = StepOrder
          /\ pc = "returned"

\* the package was written in full, removing the working directory failed:
\* the run threw and the config file still holds what it held
C6_Witness ==
    /\ pc = "threw"
    /\ failedAt = "rmOut"
    /\ pkgDir.main = remoteVer
    /\ pkgDir.manifestVersion = remoteVer
    /\ outDir.exists
    /\ configFile = snapshot[1]
    /\ configFile.value.version # remoteVer

\* C7 as the spec has it: whatever network request fails, the run is aborted
\* and throws.
C7_EveryNetworkFailureAborts ==
    netFailed # {} => pc = "threw"

\* C7, amended: a failed download of the binary (a response that is not ok, a
\* rejected fetch, a broken stream) ends the run with the error rethrown and
\* no later step started; a failed fetch of the CLI script, or a script with
\* no VER match, does not: the run goes on with the fallback version "0.27.4",
\* and throws only if a later step rejects.
C7_DownloadFailureAbortsVersionFailureFallsBack ==
    /\ "download" \in netFailed =>
          /\ pc = "threw"
          /\ outcome = "failed"
          /\ failedAt = "download"
          /\ attempted = << "mkdirOut", "download" >>
    /\ "versionScript" \in netFailed =>
          /\ remoteVer = FallbackVersion
          /\ pc # "fetchVersion"
          /\ (pc = "threw" => failedAt # "none")

\* the CLI script could not be fetched, the run went on to the download, and
\* the failed download ended it
C7_Witness ==
    /\ netFailed = {"versionScript", "download"}
    /\ pc = "threw"
    /\ remoteVer = FallbackVersion
    /\ failedAt = "download"

\* C8: a config file that is missing, not JSON, or unreadable makes readConfig
\* return the default record with the empty version and raise nothing: the run
\* does not take the same-version return, it starts the pipeline at its first
\* step, it throws only if a step rejects, and it completes when none does.
C8_UnreadableConfigIsNoPriorState ==
    (pc \notin {"idle", "readConfig"}
        /\ (snapshot[1].kind \in {"missing", "corrupt"} \/ cfgUnreadable)) =>
        /\ (pc \in {"fetchVersion", "check"} => config = DefaultConfig)
        /\ outcome # "skipped"
        /\ (pc = "threw" => failedAt # "none")
        /\ (pc \notin {"fetchVersion", "check"} =>
               \/ pc = StepOrder[1] /\ attempted = << >>
               \/ attempted # << >> /\ attempted[1] = StepOrder[1])
        /\ (pc = "returned" => outcome = "completed" /\ attempted = StepOrder)

\* a run that found no config file, ran the whole pipeline and recorded the
\* remote version
C8_Witness ==
    /\ snapshot[1].kind = "missing"
    /\ pc = "returned"
    /\ outcome = "completed"
    /\ attempted = StepOrder
    /\ configFile = ConfigFileOf([DefaultConfig EXCEPT !.version = remoteVer])

-----------------------------------------------------------------------------
(* Claims about patchAst's top-level await pass                            *)

StartsOf(stmts) == [i \in 1..Len(stmts) |-> stmts[i].start]

Increasing(s) == \A i, j \in 1..Len(s) : i < j => s[i] < s[j]

Range(s) == { s[i] : i \in 1..Len(s) }

\* the positions, in the input, of the statements that are `await expr;`
AwaitStatementsOf ==
    { k \in 1..Len(code) : IsTopLevelAwaitStatement(code[k]) }

\* a top-level statement the configuration asks to take out
ConfigRemoves(stmt) ==
    \/ /\ stmt.type = "ExpressionStatement"
       /\ stmt.expression.type = "CallExpression"
       /\ CalleeName(stmt.expression) \in patchConfig.removeFunctionCalls
    \/ /\ stmt.type = "FunctionDeclaration"
       /\ stmt.id.name \in patchConfig.removeIdentifiers
    \/ /\ stmt.type = "VariableDeclaration"
       /\ \A i \in 1..Len(stmt.declarations) :
             stmt.declarations[i].id.name \in patchConfig.removeIdentifiers

\* the positions of the statements that stay where they are; 0 is the
\* prepended snippet
KeptStatementsOf ==
    {0} \cup { k \in 1..Len(code) : /\ ~IsTopLevelAwaitStatement(code[k])
                                     /\ ~ConfigRemoves(code[k]) }

\* (async () => { ... })(); made by the pass, not read from the input
IsAppendedAsyncFunction(stmt) ==
    /\ stmt.type = "ExpressionStatement"
    /\ stmt.start = -1
    /\ stmt.expression.type = "CallExpression"
    /\ stmt.expression.arguments = << >>
    /\ stmt.expression.callee.type = "ArrowFunctionExpression"
    /\ stmt.expression.callee.async
    /\ stmt.expression.callee.body.type = "BlockStatement"

\* the statements inside the appended function, none when there is no such
\* function
Relocated ==
    IF Len(ast) >= 1 /\ IsAppendedAsyncFunction(ast[Len(ast)])
        THEN ast[Len(ast)].expression.callee.body.body
        ELSE << >>

\* C9: the top-level statements of the form `await expr;` are taken out of
\* their place and put, in their original order, into the body of one
\* immediately-invoked async function appended as the last statement; every
\* other statement keeps its order before it, and nothing is appended when
\* the input has no such statement.
C9_AwaitStatementsMovedToOneTrailingAsyncFunction ==
    (ppc \in {"generate", "done"}) =>
        LET wrapped == AwaitStatementsOf # {}
            front == IF wrapped THEN SubSeq(ast, 1, Len(ast) - 1) ELSE ast
        IN  /\ wrapped =>
                /\ Len(ast) >= 1
                /\ IsAppendedAsyncFunction(ast[Len(ast)])
                /\ \A i \in 1..Len(Relocated) :
                      /\ IsTopLevelAwaitStatement(Relocated[i])
                      /\ Relocated[i] \in Range(traversed)
                /\ Range(StartsOf(Relocated)) = AwaitStatementsOf
                /\ Increasing(StartsOf(Relocated))
            /\ \A i \in 1..Len(front) :
                  /\ front[i].start >= 0
                  /\ ~IsTopLevelAwaitStatement(front[i])
                  /\ front[i] \in Range(traversed)
            /\ Range(StartsOf(front)) = KeptStatementsOf
            /\ Increasing(StartsOf(front))
            /\ (ppc = "done") =>
                  output = Generate(front) \o
                      (IF wrapped
                          THEN << "(", "async", "(", ")", "=>", "{" >>
                                   \o Generate(Relocated)
                                   \o << "}", ")", "(", ")", ";" >>
                          ELSE << >>)

\* C9 witness: `await f(); await g; h();` comes out as the snippet, `h();`,
\* then one async function holding `await f(); await g;`.
C9_Witness ==
    /\ ppc = "done"
    /\ patchConfig = EmptyPatchConfig
    /\ code = << StatementPool[1], StatementPool[2], StatementPool[7] >>
    /\ output = << "(", "function", "(", ")", "{", "authCheckCode", "}", ")",
                   "(", ")", ";",
                   "h", "(", ")", ";",
                   "(", "async", "(", ")", "=>", "{",
                   "await", "f", "(", ")", ";", "await", "g", ";",
                   "}", ")", "(", ")", ";" >>

\* does the node hold an await that no function encloses
RECURSIVE AwaitOutsideFunction(_), AnyAwaitOutsideFunction(_)
AwaitOutsideFunction(node) ==
    CASE node.type = "AwaitExpression" -> TRUE
      [] node.type \in {"FunctionDeclaration", "FunctionExpression",
                        "ArrowFunctionExpression"} -> FALSE
      [] node.type = "ExpressionStatement" -> AwaitOutsideFunction(node.expression)
      [] node.type = "VariableDeclaration" ->
            AnyAwaitOutsideFunction(node.declarations)
      [] node.type = "VariableDeclarator" -> AwaitOutsideFunction(node.init)
      [] node.type = "CallExpression" ->
            AwaitOutsideFunction(node.callee) \/ AnyAwaitOutsideFunction(node.arguments)
      [] node.type = "MemberExpression" ->
            AwaitOutsideFunction(node.object) \/ AwaitOutsideFunction(node.property)
      [] node.type = "ReturnStatement" -> AwaitOutsideFunction(node.argument)
      [] node.type = "BlockStatement" -> AnyAwaitOutsideFunction(node.body)
      [] OTHER -> FALSE

AnyAwaitOutsideFunction(nodes) ==
    \E i \in 1..Len(nodes) : AwaitOutsideFunction(nodes[i])

\* C10: a top-level statement is moved into the appended async function exactly
\* when it holds an await that no function encloses, whatever kind of statement
\* it is.  The pass moves only statements that are an await expression
\* themselves: `const x = await g;` and `h(await g);` stay at the top level.
C10_MovedIffAwaitOutsideFunction ==
    (ppc \in {"generate", "done"}) =>
        \A k \in 1..Len(code) :
            AwaitOutsideFunction(code[k]) <=> (k \in Range(StartsOf(Relocated)))

-----------------------------------------------------------------------------
(* Claims about the rewrite of imports                                     *)

\* the number of require("<source>") calls in a node
RECURSIVE RequireCalls(_, _), RequireCallsIn(_, _)
RequireCalls(node, source) ==
    CASE node.type = "CallExpression" ->
            (IF node.callee = Identifier("require") /\ node.arguments = << source >>
                THEN 1 ELSE 0)
            + RequireCalls(node.callee, source)
            + RequireCallsIn(node.arguments, source)
      [] node.type = "ExpressionStatement" -> RequireCalls(node.expression, source)
      [] node.type = "VariableDeclaration" ->
            RequireCallsIn(node.declarations, source)
      [] node.type = "VariableDeclarator" -> RequireCalls(node.init, source)
      [] node.type = "MemberExpression" ->
            RequireCalls(node.object, source) + RequireCalls(node.property, source)
      [] OTHER -> 0

RequireCallsIn(nodes, source) ==
    IF nodes = << >> THEN 0
    ELSE RequireCalls(Head(nodes), source) + RequireCallsIn(Tail(nodes), source)

\* the local names an import declares
LocalsOf(import) ==
    { import.specifiers[i].local.name : i \in 1..Len(import.specifiers) }

\* the configuration leaves the statement an import is replaced with alone: it
\* removes neither the calls of require nor a name the import declares
LeavesImportAlone(import) ==
    /\ "require" \notin patchConfig.removeFunctionCalls
    /\ LocalsOf(import) \cap patchConfig.removeIdentifiers = {}

\* the statements of the traversed program that stand where input statement k
\* stood
StatementsAt(k) == { i \in 1..Len(traversed) : traversed[i].start = k }

IsMixedImport(import) ==
    /\ \E i \in 1..Len(import.specifiers) :
          IsImportDefaultSpecifier(import.specifiers[i])
    /\ \E i \in 1..Len(import.specifiers) : IsImportSpecifier(import.specifiers[i])

\* C11: every import declaration is replaced by one statement that holds
\* exactly one require call of the import's source; for a default+named import
\* that call initialises one generated temporary, and the default name and the
\* destructuring pattern are both initialised from that temporary.
C11_OneRequirePerImport ==
    (ppc \in {"relocate", "generate", "done"}) =>
        \A k \in 1..Len(code) :
            (code[k].type = "ImportDeclaration" /\ LeavesImportAlone(code[k])) =>
                /\ Cardinality(StatementsAt(k)) = 1
                /\ \A i \in StatementsAt(k) :
                      /\ traversed[i].type # "ImportDeclaration"
                      /\ RequireCalls(traversed[i], code[k].source) = 1
                      /\ IsMixedImport(code[k]) =>
                            LET ds == traversed[i].declarations
                            IN  /\ traversed[i].type = "VariableDeclaration"
                                /\ Len(ds) = 3
                                /\ ds[1].id.type = "Identifier"
                                /\ ds[1].id.name \notin LocalsOf(code[k])
                                /\ ds[1].init = RequireCall(code[k].source)
                                /\ ds[2].id.type = "Identifier"
                                /\ ds[2].init = ds[1].id
                                /\ ds[3].id.type = "ObjectPattern"
                                /\ ds[3].init = ds[1].id

\* C11 witness: `import Def, {x} from "m";` has been rewritten to
\* `var _temp = require("m"), Def = _temp, {x} = _temp;`.
C11_Witness ==
    /\ ppc = "done"
    /\ patchConfig = EmptyPatchConfig
    /\ code = << ImportPool[5] >>
    /\ output = << "(", "function", "(", ")", "{", "authCheckCode", "}", ")",
                   "(", ")", ";",
                   "var", "_temp", "=", "require", "(", "\"", "m", "\"", ")", ",",
                   "Def", "=", "_temp", ",", "{", "x", "}", "=", "_temp", ";" >>

\* the declarator list binds the name to the require call of the source,
\* directly or through a declarator of the same list initialised with it
BindsToRequire(ds, name, source) ==
    \E i \in 1..Len(ds) :
        /\ ds[i].id = Identifier(name)
        /\ \/ ds[i].init = RequireCall(source)
           \/ \E j \in 1..Len(ds) :
                 /\ ds[j].id = ds[i].init
                 /\ ds[j].init = RequireCall(source)

\* the declarator list binds the local name to the imported property in a
\* destructuring pattern
BindsProperty(ds, importedName, localName) ==
    \E i \in 1..Len(ds) :
        /\ ds[i].id.type = "ObjectPattern"
        /\ \E j \in 1..Len(ds[i].id.properties) :
              /\ ds[i].id.properties[j].key = Identifier(importedName)
              /\ ds[i].id.properties[j].value = Identifier(localName)

\* the declarator list binds what the specifier declares
BindsSpecifier(ds, spec, source) ==
    IF IsImportSpecifier(spec)
        THEN BindsProperty(ds, spec.imported.name, spec.local.name)
        ELSE BindsToRequire(ds, spec.local.name, source)

\* C12: every import declaration is replaced by a require form that binds the
\* local name of each of its specifiers (a named specifier to the imported
\* property in a destructuring pattern, a default or namespace specifier to
\* the require result), for every combination of specifiers, and no import
\* declaration is left.  `import Def, * as ns from "m"` comes out as
\* `var _temp = require("m"), Def = _temp;`: ns is bound nowhere.
C12_EveryImportBindingPreserved ==
    (ppc \in {"relocate", "generate", "done"}) =>
        /\ \A i \in 1..Len(traversed) : traversed[i].type # "ImportDeclaration"
        /\ \A k \in 1..Len(code) :
              (code[k].type = "ImportDeclaration" /\ LeavesImportAlone(code[k])) =>
                  \A i \in StatementsAt(k) :
                      \A n \in 1..Len(code[k].specifiers) :
                          /\ traversed[i].type = "VariableDeclaration"
                          /\ BindsSpecifier(traversed[i].declarations,
                                            code[k].specifiers[n], code[k].source)

-----------------------------------------------------------------------------
(* Claims about the replacement of bodies and the removal of calls         *)

IsFunctionNode(node) ==
    node.type \in {"FunctionExpression", "ArrowFunctionExpression"}

\* the functions a top-level statement holds, each as << name, body >>: a
\* declared function, a function or arrow bound to a variable, the methods
\* of an object bound to a variable, the methods of a class
FunctionsOf(stmt) ==
    CASE stmt.type = "FunctionDeclaration" -> { << stmt.id.name, stmt.body >> }
      [] stmt.type = "VariableDeclaration" ->
            UNION { LET d == stmt.declarations[i]
                    IN  IF IsFunctionNode(d.init)
                            THEN { << d.id.name, d.init.body >> }
                        ELSE IF d.init.type = "ObjectExpression"
                            THEN { << d.init.properties[j].key.name,
                                      d.init.properties[j].body >> :
                                        j \in 1..Len(d.init.properties) }
                        ELSE {} : i \in 1..Len(stmt.declarations) }
      [] stmt.type = "ClassDeclaration" ->
            { << stmt.body.body[j].key.name, stmt.body.body[j].body >> :
                j \in 1..Len(stmt.body.body) }
      [] OTHER -> {}

NamesOf(functions) == { fn[1] : fn \in functions }

\* C13: with replaceFunctionBody mapping a name to a string, every declared
\* function, variable-bound function or arrow, object method and class method
\* of that name has `return "<value>";` as its whole body, whatever the string
\* and whatever the function's parameters and body were, and every function of
\* another name keeps its body.  A value of "" is skipped by the visitors'
\* truthiness test: the body stays as it was.
C13_NamedBodiesReplacedByReturn ==
    (/\ ppc \in {"relocate", "generate", "done"}
     /\ patchConfig.removeIdentifiers = {}
     /\ patchConfig.removeFunctionCalls = {}) =>
        \A k \in 1..Len(code) :
            /\ Cardinality(StatementsAt(k)) = 1
            /\ \A i \in StatementsAt(k) :
                  /\ NamesOf(FunctionsOf(traversed[i])) = NamesOf(FunctionsOf(code[k]))
                  /\ \A fn \in FunctionsOf(traversed[i]) :
                        IF fn[1] \in DOMAIN patchConfig.replaceFunctionBody
                            THEN fn[2] = ReturnBody(patchConfig.replaceFunctionBody[fn[1]])
                            ELSE fn \in FunctionsOf(code[k])

\* a statement that is nothing but a call the configuration removes
IsRemovedCallStatement(stmt) ==
    /\ stmt.type = "ExpressionStatement"
    /\ stmt.expression.type = "CallExpression"
    /\ CalleeName(stmt.expression) \in patchConfig.removeFunctionCalls

\* a declaration with a declarator that has no initialiser
HasMissingInitialiser(stmt) ==
    /\ stmt.type = "VariableDeclaration"
    /\ \E i \in 1..Len(stmt.declarations) : stmt.declarations[i].init = NullNode

\* C14: a call of a name in removeFunctionCalls that is a statement of its own
\* goes together with its statement; where such a call is an initialiser, an
\* operand or an argument, its statement stays and stays whole: no declarator
\* is left without its initialiser and no expression without an operand.
\* `let y = f();` comes out as `let y;`.
C14_RemovedCallLeavesNoHole ==
    (ppc \in {"relocate", "generate", "done"}) =>
        \A k \in 1..Len(code) :
            IF IsRemovedCallStatement(code[k])
                THEN StatementsAt(k) = {}
                ELSE (/\ ~ConfigRemoves(code[k])
                      /\ ~HasMissingInitialiser(code[k])) =>
                        /\ Cardinality(StatementsAt(k)) = 1
                        /\ \A i \in StatementsAt(k) :
                              /\ ~HasMissing(traversed[i])
                              /\ ~HasMissingInitialiser(traversed[i])

-----------------------------------------------------------------------------
(* Claims about patchAst with an empty configuration                       *)

\* does the node hold import.meta
RECURSIVE HoldsMeta(_), AnyHoldsMeta(_)
HoldsMeta(node) ==
    CASE node.type = "MetaProperty" -> TRUE
      [] node.type = "ExpressionStatement" -> HoldsMeta(node.expression)
      [] node.type = "VariableDeclaration" -> AnyHoldsMeta(node.declarations)
      [] node.type = "VariableDeclarator" -> HoldsMeta(node.init)
      [] node.type = "CallExpression" ->
            HoldsMeta(node.callee) \/ AnyHoldsMeta(node.arguments)
      [] node.type = "MemberExpression" ->
            HoldsMeta(node.object) \/ HoldsMeta(node.property)
      [] node.type \in {"AwaitExpression", "ReturnStatement"} ->
            HoldsMeta(node.argument)
      [] node.type \in {"FunctionDeclaration", "FunctionExpression",
                        "ArrowFunctionExpression", "ObjectMethod", "ClassMethod",
                        "ClassDeclaration"} -> HoldsMeta(node.body)
      [] node.type = "ObjectExpression" -> AnyHoldsMeta(node.properties)
      [] node.type \in {"BlockStatement", "ClassBody"} -> AnyHoldsMeta(node.body)
      [] OTHER -> FALSE

AnyHoldsMeta(nodes) == \E i \in 1..Len(nodes) : HoldsMeta(nodes[i])

\* a statement the module-syntax rules rewrite
IsModuleSyntax(stmt) == stmt.type = "ImportDeclaration" \/ HoldsMeta(stmt)

\* input statement k as the parser hands it over
Parsed(k) == [code[k] EXCEPT !.start = k]

\* C15 as stated: with an empty configuration every statement that is not
\* module syntax comes out with the same content at the same position, right
\* after the prepended snippet.  A top-level `await g;` is moved to the end
\* whatever the configuration.
C15_EmptyConfigKeepsEveryOtherStatementInPlace ==
    (ppc \in {"generate", "done"} /\ patchConfig = EmptyPatchConfig) =>
        \A k \in 1..Len(code) :
            ~IsModuleSyntax(code[k]) =>
                /\ Len(ast) >= k + 1
                /\ ast[k + 1] = Parsed(k)

\* C15, amended: with an empty configuration the program comes out as the
\* snippet, then its statements other than `await expr;` in their order, then,
\* if there are any, one async function holding the `await expr;` statements
\* in their order; every statement that is not module syntax has the content
\* it had, and the position it had when the program has no `await expr;`.
C15_EmptyConfigOnlyNormalisesModulesAndMovesAwaits ==
    (ppc \in {"generate", "done"} /\ patchConfig = EmptyPatchConfig) =>
        LET front == IF AwaitStatementsOf # {}
                        THEN SubSeq(ast, 1, Len(ast) - 1) ELSE ast
        IN  /\ Len(front) >= 1
            /\ front[1] = [AuthCheckStatement EXCEPT !.start = 0]
            /\ Range(StartsOf(front)) = {0} \cup ((1..Len(code)) \ AwaitStatementsOf)
            /\ Increasing(StartsOf(front))
            /\ Range(StartsOf(Relocated)) = AwaitStatementsOf
            /\ Increasing(StartsOf(Relocated))
            /\ \A stmt \in Range(front) \cup Range(Relocated) :
                  (stmt.start > 0) =>
                      IF IsModuleSyntax(code[stmt.start])
                          THEN stmt.type # "ImportDeclaration" /\ ~HoldsMeta(stmt)
                          ELSE stmt = Parsed(stmt.start)
            /\ (AwaitStatementsOf = {}) =>
                  \A k \in 1..Len(code) :
                      ~IsModuleSyntax(code[k]) => ast[k + 1] = Parsed(k)

\* C15 witness: `import Def from "m"; await g; function foo(a) { h(); }` with
\* the empty configuration.
C15_Witness ==
    /\ ppc = "done"
    /\ patchConfig = EmptyPatchConfig
    /\ code = << ImportPool[4], StatementPool[2], RewritePool[1] >>
    /\ output = << "(", "function", "(", ")", "{", "authCheckCode", "}", ")",
                   "(", ")", ";",
                   "var", "Def", "=", "require", "(", "\"", "m", "\"", ")", ";",
                   "function", "foo", "(", "a", ")", "{", "h", "(", ")", ";", "}",
                   "(", "async", "(", ")", "=>", "{", "await", "g", ";",
                   "}", ")", "(", ")", ";" >>

-----------------------------------------------------------------------------
(* Claims about successive runs of downloadAndProcessDroid                 *)

\* the version marker as the current run read it from the config file it
\* found: empty when the file is missing, unparseable or unreadable
MarkerRead ==
    IF cfgUnreadable \/ snapshot[1].kind # "json"
        THEN ""
        ELSE snapshot[1].value.version

\* the current run has taken its decision at the version check
Decided == pc \notin {"idle", "readConfig", "fetchVersion", "check"}

\* C16: over successive runs on one config file, a run that completes leaves
\* the remote version it discovered as the file's marker; the next run finds
\* the file as the last run left it; a run that reads a non-empty marker equal
\* to the remote version it discovers returns without starting any step and
\* without touching a file; and a run starts the steps only when the marker it
\* read is empty or differs from the remote version.
C16_MarkerDecidesWhetherTheNextRunWorks ==
    /\ [](outcome = "completed" =>
             /\ configFile.kind = "json"
             /\ remoteVer # ""
             /\ configFile.value.version = remoteVer)
    /\ [][ (runs' = runs + 1) =>
              /\ configFile' = configFile
              /\ snapshot'[1] = configFile ]_vars
    /\ []((Decided /\ MarkerRead # "" /\ MarkerRead = remoteVer) =>
             /\ outcome = "skipped"
             /\ attempted = << >>
             /\ Persisted = snapshot)
    /\ []((attempted # << >>) => (MarkerRead = "" \/ MarkerRead # remoteVer))

\* C16 witness: the second run finds the marker the first, completed run wrote,
\* discovers the same remote version and returns with nothing done.
C16_Witness ==
    /\ runs = 2
    /\ Decided
    /\ ~cfgUnreadable
    /\ snapshot[1] = ConfigFileOf(WithVersion(DefaultConfig, remoteVer))
    /\ snapshot[3].manifestVersion = remoteVer
    /\ attempted = << >>
    /\ outcome = "skipped"

====
